---- MODULE Spec2Model ----
(***************************************************************************)
(* The batch ingestion pipeline of src/app.js (populate-db part, lines     *)
(* 749-859) over the schema of src/unnamed/part_000.                       *)
(*                                                                         *)
(* Strings of the CSV that the code inspects character by character       *)
(* (InvoiceNo, Quantity) are sequences of one-character strings; the other *)
(* fields are TLA+ strings, "" being the empty CSV cell.                   *)
(***************************************************************************)
EXTENDS Integers, Sequences, FiniteSets, TLC

\* ------------------------------------------------------------------ bounds
MaxRows == 3        \* longest CSV source explored
MaxRuns == 2        \* number of times the script is run over that source
batchSize == 2      \* src/app.js:768 sets 1000; scaled down with MaxRows

\* ------------------------------------------------------- values and inputs
\* A field that csv-parser did not set (a row shorter than the header).
Undefined == "undefined"
\* SQL NULL.
Null == "NULL"

\* JavaScript truthiness of a string-or-undefined field (if (row.X)).
Truthy(v) == v /= Undefined /\ v /= ""
\* The same test for a field modelled as a sequence of characters.
TruthySeq(s) == Len(s) > 0

\* node-postgres sends undefined as NULL and a string, also '', as itself.
PgParam(v) == IF v = Undefined THEN Null ELSE v

Digits == {"0", "1", "2", "3", "4", "5", "6", "7", "8", "9"}
DigitVal(c) == CASE c = "0" -> 0 [] c = "1" -> 1 [] c = "2" -> 2 [] c = "3" -> 3
                 [] c = "4" -> 4 [] c = "5" -> 5 [] c = "6" -> 6 [] c = "7" -> 7
                 [] c = "8" -> 8 [] c = "9" -> 9

\* PostgreSQL's text -> INTEGER input (quantity INTEGER): optional sign,
\* then at least one digit; anything else is "invalid input syntax".
IsInt(s) ==
    LET body == IF Len(s) > 0 /\ s[1] \in {"-", "+"} THEN Tail(s) ELSE s
    IN  Len(body) > 0 /\ \A i \in 1..Len(body) : body[i] \in Digits

RECURSIVE DigitsVal(_)
DigitsVal(s) == IF s = <<>> THEN 0
                ELSE 10 * DigitsVal(SubSeq(s, 1, Len(s) - 1)) + DigitVal(s[Len(s)])

ParseInt(s) == IF s[1] = "-" THEN 0 - DigitsVal(Tail(s))
               ELSE IF s[1] = "+" THEN DigitsVal(Tail(s))
               ELSE DigitsVal(s)

\* (String.prototype.includes in its place)
includes(s, c) == \E i \in 1..Len(s) : s[i] = c
\* String.prototype.startsWith for a one-character prefix.
startsWith(s, c) == Len(s) >= 1 /\ s[1] = c

Row(inv, code, desc, qty, cust, country) ==
    [InvoiceNo |-> inv, StockCode |-> code, Description |-> desc,
     Quantity |-> qty, InvoiceDate |-> "2010-12-01 08:26:00",
     UnitPrice |-> "2.55", CustomerID |-> cust, Country |-> country]

\* The CSV records the source is built from.
Rows == {
    \* complete, well-formed records
    Row(<<"1">>, "P1", "HEART", <<"6">>, "c1", "UK"),
    Row(<<"1">>, "P2", "LAMP", <<"-", "1">>, "c1", "FR"),
    \* no description: relies on product P1 being in the store already
    Row(<<"C", "2">>, "P1", "", <<"-", "1">>, "c1", "UK"),
    \* empty stock code; 'C' not in first place
    Row(<<"3", "C">>, "", "", <<"3">>, "c2", "UK"),
    \* guest record, empty CustomerID cell
    Row(<<"4">>, "P2", "LAMP", <<"1">>, "", "UK"),
    \* short row: CustomerID and Country were never set
    Row(<<"5">>, "P1", "HEART", <<"2">>, Undefined, Undefined),
    \* malformed quantity
    Row(<<"1">>, "P1", "MUG", <<"x">>, "c2", "FR"),
    \* no invoice id
    Row(<<>>, "P2", "BOWL", <<"1">>, "c2", "FR")
}

Sources == UNION {[1..n -> Rows] : n \in 0..MaxRows}

\* --------------------------------------------------------------- the store
\* src/unnamed/part_000: four tables, each a set of rows.
EmptyDb == [customers |-> {}, products |-> {}, invoices |-> {}, invoice_items |-> {}]

\* The session of the single Client: outside a transaction every statement
\* commits by itself; inside one, ins holds the rows inserted and not yet
\* committed, and aborted is set by the first failing statement.
NoTx == [inTx |-> FALSE, aborted |-> FALSE, ins |-> EmptyDb]

Merge(a, b) == [customers |-> a.customers \cup b.customers,
                products |-> a.products \cup b.products,
                invoices |-> a.invoices \cup b.invoices,
                invoice_items |-> a.invoice_items \cup b.invoice_items]

Minus(a, b) == [customers |-> a.customers \ b.customers,
                products |-> a.products \ b.products,
                invoices |-> a.invoices \ b.invoices,
                invoice_items |-> a.invoice_items \ b.invoice_items]

\* What a statement of the session sees: committed rows and its own.
View(st, ses) == IF ses.inTx THEN Merge(st, ses.ins) ELSE st

HasCustomer(db, id) == \E r \in db.customers : r.customer_id = id
HasProduct(db, code) == \E r \in db.products : r.stock_code = code
HasInvoice(db, id) == \E r \in db.invoices : r.invoice_id = id

\* Result of one statement: ok = FALSE is a thrown query error.
Ok(db, seq) == [ok |-> TRUE, db |-> db, seq |-> seq]
Err(db, seq) == [ok |-> FALSE, db |-> db, seq |-> seq]

\* (ON CONFLICT (customer_id) DO UPDATE SET country = EXCLUDED.country)
InsertCustomerUpsert(db, seq, id, country) ==
    Ok([db EXCEPT !.customers = {r \in @ : r.customer_id /= id}
                                  \cup {[customer_id |-> id, country |-> country]}], seq)
\* (the INSERT without its ON CONFLICT clause: a duplicate key is an error)
InsertCustomerNoClause(db, seq, id, country) ==
    IF HasCustomer(db, id) THEN Err(db, seq)
    ELSE Ok([db EXCEPT !.customers = @ \cup {[customer_id |-> id, country |-> country]}], seq)
\* INSERT INTO customers ... ON CONFLICT (customer_id) DO NOTHING
InsertCustomer(db, seq, id, country) ==
    IF HasCustomer(db, id) THEN Ok(db, seq)
    ELSE Ok([db EXCEPT !.customers = @ \cup {[customer_id |-> id, country |-> country]}], seq)

\* INSERT INTO products (stock_code, description) ... ON CONFLICT DO NOTHING
\* popularity_score takes its DEFAULT 0.
InsertProduct(db, seq, code, desc) ==
    IF HasProduct(db, code) THEN Ok(db, seq)
    ELSE Ok([db EXCEPT !.products = @ \cup
               {[stock_code |-> code, description |-> desc, popularity_score |-> 0]}], seq)

\* (invoice_id without its PRIMARY KEY: every record adds its invoice row)
InsertInvoiceNoKey(db, seq, id, cust, date, country, cancelled) ==
    IF cust /= Null /\ ~HasCustomer(db, cust) THEN Err(db, seq)
    ELSE Ok([db EXCEPT !.invoices = @ \cup
               {[invoice_id |-> id, customer_id |-> cust, invoice_date |-> date,
                 country |-> country, is_cancelled |-> cancelled]}], seq)
\* INSERT INTO invoices ... ON CONFLICT (invoice_id) DO NOTHING
\* customer_id REFERENCES customers: a non-NULL value must resolve.
InsertInvoice(db, seq, id, cust, date, country, cancelled) ==
    IF HasInvoice(db, id) THEN Ok(db, seq)
    ELSE IF cust /= Null /\ ~HasCustomer(db, cust) THEN Err(db, seq)
    ELSE Ok([db EXCEPT !.invoices = @ \cup
               {[invoice_id |-> id, customer_id |-> cust, invoice_date |-> date,
                 country |-> country, is_cancelled |-> cancelled]}], seq)

\* (invoice_items without its REFERENCES clauses)
InsertInvoiceItemNoFk(db, seq, inv, code, qty, price) ==
    IF ~IsInt(qty) THEN Err(db, seq)
    ELSE Ok([db EXCEPT !.invoice_items = @ \cup
               {[id |-> seq + 1, invoice_id |-> inv, stock_code |-> code,
                 quantity |-> ParseInt(qty), unit_price |-> price]}], seq + 1)
\* INSERT INTO invoice_items (invoice_id, stock_code, quantity, unit_price)
\* id SERIAL: nextval is taken when the row is formed and is not given back
\* by a failure; the quantity parameter is parsed before that.
InsertInvoiceItem(db, seq, inv, code, qty, price) ==
    IF ~IsInt(qty) THEN Err(db, seq)
    ELSE IF ~HasInvoice(db, inv) \/ ~HasProduct(db, code) THEN Err(db, seq + 1)
    ELSE Ok([db EXCEPT !.invoice_items = @ \cup
               {[id |-> seq + 1, invoice_id |-> inv, stock_code |-> code,
                 quantity |-> ParseInt(qty), unit_price |-> price]}], seq + 1)

\* ------------------------------------------------------------ processBatch
\* The conditions of the four blocks of the loop body.
\* src/app.js:778 if (row.CustomerID)
WritesCustomer(row) == Truthy(row.CustomerID)
\* src/app.js:787 if (row.StockCode && row.Description)
WritesProduct(row) == Truthy(row.StockCode) /\ Truthy(row.Description)
\* (the invoice written only for a record that also has a stock code)
WritesInvoiceNeedsStock(row) == TruthySeq(row.InvoiceNo) /\ Truthy(row.StockCode)
\* src/app.js:796 if (row.InvoiceNo)
WritesInvoice(row) == TruthySeq(row.InvoiceNo)
\* src/app.js:806 if (row.InvoiceNo && row.StockCode)
WritesItem(row) == TruthySeq(row.InvoiceNo) /\ Truthy(row.StockCode)

\* The four blocks, each one statement or nothing.
CustomerBlock(db, seq, row) ==
    IF WritesCustomer(row)
    THEN InsertCustomer(db, seq, row.CustomerID, PgParam(row.Country))
    ELSE Ok(db, seq)

ProductBlock(db, seq, row) ==
    IF WritesProduct(row)
    THEN InsertProduct(db, seq, row.StockCode, row.Description)
    ELSE Ok(db, seq)

InvoiceBlock(db, seq, row) ==
    IF WritesInvoice(row)
    THEN LET isCancelled == startsWith(row.InvoiceNo, "C")
         IN  InsertInvoice(db, seq, row.InvoiceNo, PgParam(row.CustomerID),
                           PgParam(row.InvoiceDate), PgParam(row.Country), isCancelled)
    ELSE Ok(db, seq)

ItemBlock(db, seq, row) ==
    IF WritesItem(row)
    THEN InsertInvoiceItem(db, seq, row.InvoiceNo, row.StockCode, row.Quantity,
                           PgParam(row.UnitPrice))
    ELSE Ok(db, seq)

\* (the line item written before the invoice it belongs to)
StatementItemFirst(n, db, seq, row) ==
    CASE n = 1 -> CustomerBlock(db, seq, row)
      [] n = 2 -> ProductBlock(db, seq, row)
      [] n = 3 -> ItemBlock(db, seq, row)
      [] n = 4 -> InvoiceBlock(db, seq, row)
\* The n-th block of the loop body, src/app.js:777-811, in source order.
Statement(n, db, seq, row) ==
    CASE n = 1 -> CustomerBlock(db, seq, row)
      [] n = 2 -> ProductBlock(db, seq, row)
      [] n = 3 -> InvoiceBlock(db, seq, row)
      [] n = 4 -> ItemBlock(db, seq, row)

\* One iteration of "for (const row of batch)", src/app.js:776-812: the four
\* guarded statements in order; the first error leaves the rest unexecuted.
ProcessRow(db, seq, row) ==
    LET r1 == Statement(1, db, seq, row)
        r2 == IF ~r1.ok THEN r1 ELSE Statement(2, r1.db, r1.seq, row)
        r3 == IF ~r2.ok THEN r2 ELSE Statement(3, r2.db, r2.seq, row)
        r4 == IF ~r3.ok THEN r3 ELSE Statement(4, r3.db, r3.seq, row)
    IN  r4

\* COMMIT and ROLLBACK of an open transaction: the committed rows afterwards.
Commit(st, ses) == IF ses.aborted THEN st ELSE Merge(st, ses.ins)
\* (a ROLLBACK that keeps what the statements before the error wrote)
RollbackKeepsRows(st, ses) == Merge(st, ses.ins)
Rollback(st, ses) == st

\* A call of processBatch: its argument, its position (record i, block s),
\* who awaits it, the committed store when it was called and how it ended.
NewCall(batch, caller, st, seq) ==
    [pc |-> "begin", batch |-> batch, i |-> 1, s |-> 1, caller |-> caller,
     pre |-> st, preSeq |-> seq, outcome |-> "pending"]

InFlight(c) == c.pc \in {"begin", "row", "commit", "catch"}

\* ------------------------------------------------------------------- state
VARIABLES
    source,           \* the records of OnlineRetail.csv, in file order
    run,              \* which run of the script this is
    proc,             \* "start", "running", "exit1", "crashed"
    pos,              \* records the stream has emitted so far
    flowing,          \* the stream is in flowing mode (not paused)
    endEmitted,       \* 'end' has been emitted
    currentBatch,     \* src/app.js:769
    processedRows,    \* src/app.js:770
    connected,        \* the Client has a live connection
    clientEnded,      \* client.end() was called
    completionLogged, \* the "Data loading completed successfully" line was printed
    store,            \* committed contents of the four tables
    itemSeq,          \* last value of the invoice_items id sequence
    session,          \* transaction state of the Client's session
    calls,            \* every processBatch call of this run, in call order
    firstRun,         \* what the previous run left: its store and outcomes
    puts,             \* PUT requests of the API between their SELECT and UPDATE
    apiCount,         \* requests the API has taken so far
    response,         \* the last response the API sent
    streamErrored     \* the csv stream has emitted 'error'

vars == <<source, run, proc, pos, flowing, endEmitted, currentBatch, processedRows,
          connected, clientEnded, completionLogged, store, itemSeq, session, calls,
          firstRun, puts, apiCount, response, streamErrored>>

\* The state of the API server's requests.
api == <<puts, apiCount, response>>
NoResponse == [op |-> "none", stock_code |-> Undefined, description |-> Undefined,
               status |-> 0, rows |-> {}]

Init ==
    /\ source \in Sources
    /\ run = 1
    /\ proc = "start"
    /\ pos = 0
    /\ flowing = FALSE
    /\ endEmitted = FALSE
    /\ currentBatch = <<>>
    /\ processedRows = 0
    /\ connected = FALSE
    /\ clientEnded = FALSE
    /\ completionLogged = FALSE
    /\ store = EmptyDb
    /\ itemSeq = 0
    /\ session = NoTx
    /\ calls = <<>>
    /\ firstRun = [db |-> EmptyDb, allCommitted |-> TRUE]
    /\ puts = <<>>
    /\ apiCount = 0
    /\ response = NoResponse
    /\ streamErrored = FALSE

\* ----------------------------------------------------------------- actions
SetCall(k, c) == [calls EXCEPT ![k] = c]

\* (a failed connect that is swallowed: the script goes on without a
\* connection)
ConnectSwallowsError ==
    /\ proc = "start"
    /\ proc' = "running"
    /\ flowing' = TRUE
    /\ connected' \in BOOLEAN
    /\ UNCHANGED <<streamErrored, api, firstRun, source, run, pos, endEmitted, currentBatch, processedRows,
                   clientEnded, completionLogged, store, itemSeq, session, calls>>

\* src/app.js:825 await client.connect(), then 829-851 the stream is built
\* and, a 'data' listener being attached, starts flowing; 853-856 a failed
\* connect ends the process with status 1.
Connect ==
    /\ proc = "start"
    /\ \/ /\ proc' = "running"
          /\ connected' = TRUE
          /\ flowing' = TRUE
       \/ /\ proc' = "exit1"
          /\ UNCHANGED <<connected, flowing>>
    /\ UNCHANGED <<streamErrored, api, firstRun, source, run, pos, endEmitted, currentBatch, processedRows,
                   clientEnded, completionLogged, store, itemSeq, session, calls>>

\* (a pause() without effect)
pauseIgnored(f) == f
\* stream.pause(): the stream leaves flowing mode.
pause(f) == FALSE
\* (a resume() without effect)
resumeIgnored(f) == f
\* stream.resume()
resume(f) == TRUE

\* (a stream that goes on emitting after its 'error')
EmitsAfterError(f, e) == f
\* A stream emits 'data' and 'end' while it is flowing and has not been
\* destroyed by an error.
Emits(f, e) == f /\ ~e

\* (the test written with > : the group is handed over one record late)
BatchFullLate(b) == Len(b) > batchSize
\* src/app.js:833 if (currentBatch.length >= batchSize)
BatchFull(b) == Len(b) >= batchSize
\* (the final flush left to full buffers only)
FlushOnlyFull(b) == Len(b) >= batchSize
\* src/app.js:843 if (currentBatch.length > 0)
FlushNeeded(b) == Len(b) > 0

\* src/app.js:831-840, the 'data' listener. A paused stream emits no 'data'.
OnData ==
    /\ proc = "running"
    /\ Emits(flowing, streamErrored)
    /\ pos < Len(source)
    /\ pos' = pos + 1
    /\ LET pushed == Append(currentBatch, source[pos + 1])
       IN  /\ currentBatch' = pushed
           /\ IF BatchFull(pushed)
              THEN /\ flowing' = pause(flowing)
                   /\ calls' = Append(calls, NewCall(pushed, "data", store, itemSeq))
              ELSE UNCHANGED <<flowing, calls>>
    /\ UNCHANGED <<streamErrored, api, firstRun, source, run, proc, endEmitted, processedRows, connected,
                   clientEnded, completionLogged, store, itemSeq, session>>

\* src/app.js:841-848, the 'end' listener up to its first await. 'end' is
\* emitted once, by a flowing stream that has delivered every record.
OnEnd ==
    /\ proc = "running"
    /\ Emits(flowing, streamErrored)
    /\ pos = Len(source)
    /\ ~endEmitted
    /\ endEmitted' = TRUE
    /\ IF FlushNeeded(currentBatch)
       THEN /\ calls' = Append(calls, NewCall(currentBatch, "end", store, itemSeq))
            /\ UNCHANGED <<completionLogged, clientEnded, connected, session>>
       ELSE /\ completionLogged' = TRUE
            /\ clientEnded' = TRUE
            /\ connected' = FALSE
            /\ session' = NoTx
            /\ UNCHANGED calls
    /\ UNCHANGED <<streamErrored, api, firstRun, source, run, proc, pos, flowing, currentBatch, processedRows,
                   store, itemSeq>>

\* src/app.js:774 await client.query('BEGIN')
PbBegin(k) ==
    /\ proc = "running"
    /\ calls[k].pc = "begin"
    /\ IF ~connected
       THEN /\ calls' = SetCall(k, [calls[k] EXCEPT !.pc = "catch"])
            /\ UNCHANGED session
       ELSE /\ calls' = SetCall(k, [calls[k] EXCEPT
                           !.pc = IF Len(calls[k].batch) = 0 THEN "commit" ELSE "row"])
            /\ session' = IF session.inTx THEN session
                          ELSE [inTx |-> TRUE, aborted |-> FALSE, ins |-> EmptyDb]
    /\ UNCHANGED <<streamErrored, api, firstRun, source, run, proc, pos, flowing, endEmitted, currentBatch,
                   processedRows, connected, clientEnded, completionLogged, store,
                   itemSeq>>

\* src/app.js:776-812, one block of the loop body for one record of the
\* group: every statement is awaited, so other requests to the store can
\* come between any two of them.
PbRow(k) ==
    /\ proc = "running"
    /\ calls[k].pc = "row"
    /\ LET c == calls[k]
           r == Statement(c.s, View(store, session), itemSeq, c.batch[c.i])
       IN  IF ~connected \/ (session.inTx /\ session.aborted)
           THEN /\ calls' = SetCall(k, [c EXCEPT !.pc = "catch"])
                /\ UNCHANGED <<store, itemSeq, session>>
           ELSE /\ itemSeq' = r.seq
                /\ IF session.inTx
                   THEN /\ session' = [session EXCEPT !.ins = Minus(r.db, store),
                                                       !.aborted = ~r.ok]
                        /\ UNCHANGED store
                   ELSE /\ store' = r.db
                        /\ UNCHANGED session
                /\ calls' = SetCall(k,
                     IF ~r.ok THEN [c EXCEPT !.pc = "catch"]
                     ELSE IF c.s < 4 THEN [c EXCEPT !.s = c.s + 1]
                     ELSE IF c.i = Len(c.batch) THEN [c EXCEPT !.pc = "commit"]
                     ELSE [c EXCEPT !.i = c.i + 1, !.s = 1])
    /\ UNCHANGED <<streamErrored, api, firstRun, source, run, proc, pos, flowing, endEmitted, currentBatch,
                   processedRows, connected, clientEnded, completionLogged>>

\* (the nominal group size added instead of the size of the group)
CountsBatchSize(n, b) == n + batchSize
\* src/app.js:815 processedRows += batch.length
CountAfterCommit(n, b) == n + Len(b)

\* src/app.js:814-816 await client.query('COMMIT'); processedRows += ...
PbCommit(k) ==
    /\ proc = "running"
    /\ calls[k].pc = "commit"
    /\ IF ~connected
       THEN /\ calls' = SetCall(k, [calls[k] EXCEPT !.pc = "catch"])
            /\ UNCHANGED <<store, session, processedRows>>
       ELSE /\ store' = IF session.inTx THEN Commit(store, session) ELSE store
            /\ session' = NoTx
            /\ processedRows' = CountAfterCommit(processedRows, calls[k].batch)
            /\ calls' = SetCall(k, [calls[k] EXCEPT !.pc = "resolved",
                                                     !.outcome = "commit"])
    /\ UNCHANGED <<streamErrored, api, firstRun, source, run, proc, pos, flowing, endEmitted, currentBatch,
                   connected, clientEnded, completionLogged, itemSeq>>

\* (a catch block that rethrows after its ROLLBACK)
CatchRethrows == "rejected"
\* src/app.js:817-821 the catch block ends without throwing: the promise of
\* processBatch is fulfilled also for a failed group.
CatchCompletes == "resolved"

\* src/app.js:817-820 catch (err) { await client.query('ROLLBACK'); ... }
\* A ROLLBACK that throws rejects the promise processBatch returned.
PbCatch(k) ==
    /\ proc = "running"
    /\ calls[k].pc = "catch"
    /\ IF ~connected
       THEN /\ calls' = SetCall(k, [calls[k] EXCEPT !.pc = "rejected",
                                                     !.outcome = "reject"])
            /\ UNCHANGED <<store, session>>
       ELSE /\ store' = IF session.inTx THEN Rollback(store, session) ELSE store
            /\ session' = NoTx
            /\ calls' = SetCall(k, [calls[k] EXCEPT !.pc = CatchCompletes,
                                                     !.outcome = "rollback"])
    /\ UNCHANGED <<streamErrored, api, firstRun, source, run, proc, pos, flowing, endEmitted, currentBatch,
                   processedRows, connected, clientEnded, completionLogged, itemSeq>>

\* src/app.js:835-838 .then(() => { currentBatch = []; stream.resume(); })
ThenCallback(k) ==
    /\ proc = "running"
    /\ calls[k].pc = "resolved"
    /\ calls[k].caller = "data"
    /\ currentBatch' = <<>>
    /\ flowing' = resume(flowing)
    /\ calls' = SetCall(k, [calls[k] EXCEPT !.pc = "done"])
    /\ UNCHANGED <<streamErrored, api, firstRun, source, run, proc, pos, endEmitted, processedRows, connected,
                   clientEnded, completionLogged, store, itemSeq, session>>

\* src/app.js:844-847 the 'end' listener after await processBatch(...)
EndContinue(k) ==
    /\ proc = "running"
    /\ calls[k].pc = "resolved"
    /\ calls[k].caller = "end"
    /\ completionLogged' = TRUE
    /\ clientEnded' = TRUE
    /\ connected' = FALSE
    /\ session' = NoTx
    /\ calls' = SetCall(k, [calls[k] EXCEPT !.pc = "done"])
    /\ UNCHANGED <<streamErrored, api, firstRun, source, run, proc, pos, flowing, endEmitted, currentBatch,
                   processedRows, store, itemSeq>>

\* Nothing handles a rejection of processBatch (835 has no catch, 841 is an
\* async listener): the runtime ends the process, or only warns and the
\* pipeline stays where it is (this step never taken).
UnhandledRejection(k) ==
    /\ proc = "running"
    /\ calls[k].pc = "rejected"
    /\ proc' = "crashed"
    /\ UNCHANGED <<streamErrored, api, firstRun, source, run, pos, flowing, endEmitted, currentBatch, processedRows,
                   connected, clientEnded, completionLogged, store, itemSeq, session,
                   calls>>

\* src/app.js:829-830 fs.createReadStream('OnlineRetail.csv').pipe(csv()):
\* the file cannot be opened. The file stream emits 'error'; pipe() does not
\* pass it on to the csv stream, the only one with an 'error' listener
\* (849), so the event is unhandled and ends the process.
SourceOpenFails ==
    /\ proc = "running"
    /\ pos = 0
    /\ ~endEmitted
    /\ proc' = "crashed"
    /\ UNCHANGED <<streamErrored, api, firstRun, source, run, pos, flowing, endEmitted, currentBatch, processedRows,
                   connected, clientEnded, completionLogged, store, itemSeq, session,
                   calls>>

\* src/app.js:849-851 .on('error', (err) => { console.error(...) }): the
\* csv stream fails on what it reads, at any moment before its 'end', also
\* while it is paused. The listener logs; the stream is destroyed by its
\* error and emits nothing more.
StreamError ==
    /\ proc = "running"
    /\ ~endEmitted
    /\ ~streamErrored
    /\ streamErrored' = TRUE
    /\ UNCHANGED <<api, firstRun, source, run, proc, pos, flowing, endEmitted, currentBatch,
                   processedRows, connected, clientEnded, completionLogged, store,
                   itemSeq, session, calls>>

\* The connection to the store is lost: the server aborts the open
\* transaction and every later statement of the Client throws.
LoseConnection ==
    /\ proc = "running"
    /\ connected
    /\ connected' = FALSE
    /\ session' = NoTx
    /\ UNCHANGED <<streamErrored, api, firstRun, source, run, proc, pos, flowing, endEmitted, currentBatch,
                   processedRows, clientEnded, completionLogged, store, itemSeq, calls>>

\* The connection is lost while COMMIT is under way, after the server has
\* made the transaction durable and before the Client has its answer: the
\* group is in the store and the awaited query throws.
CommitThenLoseConnection(k) ==
    /\ proc = "running"
    /\ connected
    /\ calls[k].pc = "commit"
    /\ session.inTx
    /\ store' = Commit(store, session)
    /\ connected' = FALSE
    /\ session' = NoTx
    /\ UNCHANGED <<streamErrored, api, firstRun, source, run, proc, pos, flowing, endEmitted, currentBatch,
                   processedRows, clientEnded, completionLogged, itemSeq, calls>>

\* The script is started again over the same file and the same database:
\* the module-level state (755-770) is fresh, the tables are not.
Rerun ==
    /\ proc = "running"
    /\ clientEnded
    /\ run < MaxRuns
    /\ run' = run + 1
    /\ proc' = "start"
    /\ pos' = 0
    /\ flowing' = FALSE
    /\ endEmitted' = FALSE
    /\ currentBatch' = <<>>
    /\ processedRows' = 0
    /\ clientEnded' = FALSE
    /\ completionLogged' = FALSE
    /\ calls' = <<>>
    /\ firstRun' = [db |-> store,
                    allCommitted |-> \A k \in DOMAIN calls : calls[k].outcome = "commit"]
    /\ streamErrored' = FALSE
    /\ UNCHANGED <<api, source, connected, store, itemSeq, session>>

Next ==
    \/ Connect
    \/ OnData
    \/ OnEnd
    \/ \E k \in DOMAIN calls : PbBegin(k)
    \/ \E k \in DOMAIN calls : PbRow(k)
    \/ \E k \in DOMAIN calls : PbCommit(k)
    \/ \E k \in DOMAIN calls : PbCatch(k)
    \/ \E k \in DOMAIN calls : ThenCallback(k)
    \/ \E k \in DOMAIN calls : EndContinue(k)
    \/ \E k \in DOMAIN calls : UnhandledRejection(k)
    \/ LoseConnection
    \/ \E k \in DOMAIN calls : CommitThenLoseConnection(k)
    \/ SourceOpenFails
    \/ Rerun

Spec == Init /\ [][Next]_vars

\* ---------------------------------------------------- what a group is meant
\* to leave in the store, stated per table and not by replaying the loop.
Idx(b) == 1..Len(b)

\* Record i is the first of the group to carry its key.
FirstCustomer(b, i) == \A j \in 1..(i - 1) : b[j].CustomerID /= b[i].CustomerID
FirstInvoice(b, i) == \A j \in 1..(i - 1) : b[j].InvoiceNo /= b[i].InvoiceNo
FirstProduct(b, i) ==
    \A j \in 1..(i - 1) : ~(b[j].StockCode = b[i].StockCode /\ Truthy(b[j].Description))

HasItem(r) == TruthySeq(r.InvoiceNo) /\ Truthy(r.StockCode)
ItemsUpTo(b, i) == Cardinality({j \in 1..i : HasItem(b[j])})

GroupEffect(pre, seq, b) ==
    [customers |-> pre.customers \cup
        {[customer_id |-> b[i].CustomerID, country |-> PgParam(b[i].Country)] :
            i \in {n \in Idx(b) : /\ Truthy(b[n].CustomerID)
                                  /\ ~HasCustomer(pre, b[n].CustomerID)
                                  /\ FirstCustomer(b, n)}},
     products |-> pre.products \cup
        {[stock_code |-> b[i].StockCode, description |-> b[i].Description,
          popularity_score |-> 0] :
            i \in {n \in Idx(b) : /\ Truthy(b[n].StockCode) /\ Truthy(b[n].Description)
                                  /\ ~HasProduct(pre, b[n].StockCode)
                                  /\ FirstProduct(b, n)}},
     invoices |-> pre.invoices \cup
        {[invoice_id |-> b[i].InvoiceNo, customer_id |-> PgParam(b[i].CustomerID),
          invoice_date |-> b[i].InvoiceDate, country |-> PgParam(b[i].Country),
          is_cancelled |-> (Head(b[i].InvoiceNo) = "C")] :
            i \in {n \in Idx(b) : /\ TruthySeq(b[n].InvoiceNo)
                                  /\ ~HasInvoice(pre, b[n].InvoiceNo)
                                  /\ FirstInvoice(b, n)}},
     invoice_items |-> pre.invoice_items \cup
        {[id |-> seq + ItemsUpTo(b, i), invoice_id |-> b[i].InvoiceNo,
          stock_code |-> b[i].StockCode,
          quantity |-> IF IsInt(b[i].Quantity) THEN ParseInt(b[i].Quantity) ELSE Null,
          unit_price |-> b[i].UnitPrice] :
            i \in {n \in Idx(b) : HasItem(b[n])}}]

LastCall == calls[Len(calls)]

\* C1 - group atomicity. From the hand-over of a group on, the committed
\* store is either the store the group started from or that store with the
\* effect of every record of the group, never anything in between: the
\* former until COMMIT is issued and after a rollback, the latter once
\* processBatch has seen its COMMIT succeed.
C1_GroupAtomicity ==
    calls /= <<>> =>
        LET all == GroupEffect(LastCall.pre, LastCall.preSeq, LastCall.batch)
        IN  /\ store = LastCall.pre \/ store = all
            /\ LastCall.outcome = "commit" => store = all
            /\ (LastCall.outcome = "rollback" \/ LastCall.pc \in {"begin", "row"})
                 => store = LastCall.pre

\* A group whose first record wrote rows and whose second record failed was
\* rolled back, and the group after it has committed.
C1_Witness ==
    /\ Len(calls) = 2
    /\ calls[1].outcome = "rollback" /\ calls[1].i = 2
    /\ ProcessRow(calls[1].pre, calls[1].preSeq, calls[1].batch[1]).db /= calls[1].pre
    /\ calls[2].outcome = "commit" /\ store /= calls[2].pre

\* One run of the script over a source of the records dated for the UK: a
\* complete record, one that relies on a product stored earlier, one with
\* no stock code and a guest record.
LiveRows == {r \in Rows : r.Country = "UK"}

InitLive ==
    /\ Init
    /\ \A i \in DOMAIN source : source[i] \in LiveRows

\* A step of the script itself: a callback or a continuation that is ready.
\* At most one of them is ever ready.
PipelineStep ==
    \/ Connect
    \/ OnData
    \/ OnEnd
    \/ \E k \in DOMAIN calls : PbBegin(k)
    \/ \E k \in DOMAIN calls : PbRow(k)
    \/ \E k \in DOMAIN calls : PbCommit(k)
    \/ \E k \in DOMAIN calls : PbCatch(k)
    \/ \E k \in DOMAIN calls : ThenCallback(k)
    \/ \E k \in DOMAIN calls : EndContinue(k)

NextLive ==
    \/ PipelineStep
    \/ \E k \in DOMAIN calls : UnhandledRejection(k)
    \/ LoseConnection
    \/ \E k \in DOMAIN calls : CommitThenLoseConnection(k)

\* The event loop runs every callback that is ready and the store answers
\* every statement; losing the connection and the runtime's reaction to an
\* unhandled rejection are not owed.
LiveSpec == InitLive /\ [][NextLive]_vars /\ WF_vars(PipelineStep)

\* C2 - at most one group in flight: processBatch is called only when no
\* earlier call is still between its BEGIN and the settling of its promise.
C2_OneGroupInFlight ==
    [][Len(calls') > Len(calls) => \A k \in DOMAIN calls : ~InFlight(calls[k])]_vars

\* The final partial group is in flight after a full group has completed.
C2_Witness ==
    /\ Len(calls) >= 2
    /\ calls[1].caller = "data" /\ calls[1].pc = "done"
    /\ LastCall.caller = "end" /\ InFlight(LastCall)

\* C3 - backpressure: the buffer never holds more than batchSize records,
\* and from the hand-over of a full group until the callback that clears
\* the buffer and resumes the stream has run, no record is added to it.
C3_Backpressure ==
    /\ [](Len(currentBatch) <= batchSize)
    /\ [][(\E k \in DOMAIN calls : calls[k].caller = "data" /\ calls[k].pc /= "done")
            => Len(currentBatch') <= Len(currentBatch)]_vars

\* A full group is in flight while the source still has records to deliver.
C3_Witness ==
    /\ calls /= <<>> /\ LastCall.caller = "data" /\ LastCall.pc = "row"
    /\ Len(currentBatch) = batchSize
    /\ ~flowing
    /\ pos < Len(source)

\* The records handed to processBatch so far, in hand-over order.
RECURSIVE Handed(_)
Handed(cs) == IF cs = <<>> THEN <<>>
              ELSE Handed(SubSeq(cs, 1, Len(cs) - 1)) \o cs[Len(cs)].batch

\* No statement of the group can fail on the rows it meets: every new
\* invoice has a customer that resolves or none, every line item has an
\* integer quantity and a product that is there by the time it is written.
GroupValid(pre, b) ==
    \A i \in Idx(b) :
        /\ (TruthySeq(b[i].InvoiceNo) /\ ~HasInvoice(pre, b[i].InvoiceNo)
              /\ FirstInvoice(b, i))
             => \/ PgParam(b[i].CustomerID) = Null
                \/ Truthy(b[i].CustomerID)
                \/ HasCustomer(pre, b[i].CustomerID)
        /\ HasItem(b[i])
             => /\ IsInt(b[i].Quantity)
                /\ \/ HasProduct(pre, b[i].StockCode)
                   \/ \E j \in 1..i : /\ b[j].StockCode = b[i].StockCode
                                       /\ Truthy(b[j].Description)

ConnectionLost == proc = "running" /\ ~connected /\ ~clientEnded

\* C4 - a failed group does not halt the run. A group that was rolled back
\* leaves the store as it found it and the next group starts from that
\* store; a group that can be written is committed whether or not groups
\* before it failed; and as long as the connection is not lost, a rollback
\* is followed by the resumption of the stream and by the hand-over of
\* every remaining record of the source.
C4_FailedGroupDoesNotHalt ==
    /\ [](\A k \in DOMAIN calls :
            /\ calls[k].outcome = "rollback" =>
                 IF k < Len(calls) THEN calls[k + 1].pre = calls[k].pre
                 ELSE store = calls[k].pre
            /\ (calls[k].outcome \in {"commit", "rollback"}
                  /\ GroupValid(calls[k].pre, calls[k].batch))
                 => calls[k].outcome = "commit")
    /\ (calls /= <<>> /\ LastCall.outcome = "rollback" /\ LastCall.caller = "data")
          ~> (flowing \/ ConnectionLost)
    /\ (calls /= <<>> /\ LastCall.outcome = "rollback")
          ~> (Handed(calls) = source \/ ConnectionLost)

\* The first group was rolled back, the second one was handed over after
\* it and committed rows.
C4_Witness ==
    /\ Len(calls) = 2
    /\ calls[1].outcome = "rollback" /\ calls[1].pc = "done"
    /\ calls[2].outcome = "commit" /\ store /= calls[2].pre
    /\ Handed(calls) = source

\* C5 - the final flush precedes completion: when the completion message
\* is printed every record of the source has been handed to processBatch,
\* every call has settled (committed or rolled back) and been awaited; the
\* connection is closed only after the message.
C5_FlushBeforeCompletion ==
    /\ completionLogged =>
          /\ Handed(calls) = source
          /\ \A k \in DOMAIN calls :
                calls[k].pc = "done" /\ calls[k].outcome \in {"commit", "rollback"}
    /\ clientEnded => completionLogged

\* Completion after a partial last group that went through processBatch.
C5_Witness ==
    /\ completionLogged /\ clientEnded
    /\ Len(calls) >= 2
    /\ LastCall.caller = "end" /\ Len(LastCall.batch) < batchSize

AllFieldsValid(r) ==
    /\ TruthySeq(r.InvoiceNo) /\ Truthy(r.StockCode) /\ Truthy(r.Description)
    /\ IsInt(r.Quantity) /\ Truthy(r.CustomerID) /\ Truthy(r.Country)
    /\ Truthy(r.InvoiceDate) /\ Truthy(r.UnitPrice)

NoConflict(pre, b) ==
    \A i \in Idx(b) : /\ ~HasCustomer(pre, b[i].CustomerID)
                      /\ ~HasProduct(pre, b[i].StockCode)
                      /\ ~HasInvoice(pre, b[i].InvoiceNo)

\* C6 - a committed group of complete, well-formed records that met no row
\* with one of its keys leaves one Customer row per distinct customer id,
\* one Product row per distinct stock code, one Invoice row per distinct
\* invoice id and one InvoiceItem row per record.
C6_OneRowPerKey ==
    (/\ calls /= <<>> /\ LastCall.outcome = "commit"
     /\ \A i \in Idx(LastCall.batch) : AllFieldsValid(LastCall.batch[i])
     /\ NoConflict(LastCall.pre, LastCall.batch))
    => LET b == LastCall.batch
           new == Minus(store, LastCall.pre)
       IN  /\ \A i \in Idx(b) :
                 /\ Cardinality({r \in store.customers :
                                    r.customer_id = b[i].CustomerID}) = 1
                 /\ Cardinality({r \in store.products :
                                    r.stock_code = b[i].StockCode}) = 1
                 /\ Cardinality({r \in store.invoices :
                                    r.invoice_id = b[i].InvoiceNo}) = 1
           /\ Cardinality(new.customers) = Cardinality({b[i].CustomerID : i \in Idx(b)})
           /\ Cardinality(new.products) = Cardinality({b[i].StockCode : i \in Idx(b)})
           /\ Cardinality(new.invoices) = Cardinality({b[i].InvoiceNo : i \in Idx(b)})
           /\ Cardinality(new.invoice_items) = Len(b)

\* Such a group of two records that share their invoice and their customer
\* and disagree on the country was committed.
C6_Witness ==
    /\ calls /= <<>> /\ LastCall.outcome = "commit"
    /\ Len(LastCall.batch) = 2
    /\ \A i \in Idx(LastCall.batch) : AllFieldsValid(LastCall.batch[i])
    /\ NoConflict(LastCall.pre, LastCall.batch)
    /\ LastCall.batch[1].InvoiceNo = LastCall.batch[2].InvoiceNo
    /\ LastCall.batch[1].CustomerID = LastCall.batch[2].CustomerID
    /\ LastCall.batch[1].Country /= LastCall.batch[2].Country

SameDimensions(a, b) ==
    a.customers = b.customers /\ a.products = b.products /\ a.invoices = b.invoices

FkViolation(pre, b) ==
    \E i \in Idx(b) :
        /\ HasItem(b[i])
        /\ ~HasProduct(pre, b[i].StockCode)
        /\ ~\E j \in 1..i : b[j].StockCode = b[i].StockCode /\ Truthy(b[j].Description)

\* C8 - a group with a record that violates the product foreign key is
\* never committed: the store stays what it was before the group, without
\* the rows of the group's other records.
C8_ForeignKeyFailsGroup ==
    (calls /= <<>> /\ FkViolation(LastCall.pre, LastCall.batch))
    => LastCall.outcome /= "commit" /\ store = LastCall.pre

\* A group whose first record is writable and whose second record names a
\* missing product has been rolled back.
C8_Witness ==
    /\ calls /= <<>> /\ LastCall.outcome = "rollback" /\ LastCall.i = 2
    /\ FkViolation(LastCall.pre, LastCall.batch)
    /\ GroupValid(LastCall.pre, <<LastCall.batch[1]>>)
    /\ HasItem(LastCall.batch[1])

\* A record without customer id: the cell is empty or was never set.
Guest(r) == ~Truthy(r.CustomerID)

\* GroupValid with nothing asked of the customer reference.
GroupValidButCustomer(pre, b) ==
    \A i \in Idx(b) :
        HasItem(b[i])
             => /\ IsInt(b[i].Quantity)
                /\ \/ HasProduct(pre, b[i].StockCode)
                   \/ \E j \in 1..i : /\ b[j].StockCode = b[i].StockCode
                                       /\ Truthy(b[j].Description)

\* C9 - guest transactions are accepted: a group in which nothing but an
\* absent customer id could be objected to is committed, its guest records
\* create no Customer row and their new invoices carry a NULL customer.
C9_GuestAccepted ==
    (/\ calls /= <<>> /\ LastCall.outcome \in {"commit", "rollback"}
     /\ GroupValidButCustomer(LastCall.pre, LastCall.batch))
    => /\ LastCall.outcome = "commit"
       /\ \A r \in store.customers : Truthy(r.customer_id)
       /\ \A i \in Idx(LastCall.batch) :
             LET g == LastCall.batch[i]
             IN  (/\ Guest(g) /\ TruthySeq(g.InvoiceNo)
                  /\ ~HasInvoice(LastCall.pre, g.InvoiceNo)
                  /\ FirstInvoice(LastCall.batch, i))
                 => \E r \in store.invoices :
                       r.invoice_id = g.InvoiceNo /\ r.customer_id = Null

\* C10 - cancellation flag: every Invoice row, committed or written by the
\* open transaction, has is_cancelled set exactly when 'C' is the first
\* character of its invoice id.
C10_CancellationFlag ==
    \A r \in View(store, session).invoices :
        r.is_cancelled <=> (r.invoice_id /= <<>> /\ Head(r.invoice_id) = "C")

\* The same cancelled invoice id came in two groups, both committed, and
\* an invoice that is not cancelled is stored beside it.
C10_Witness ==
    /\ \E r \in store.invoices : r.is_cancelled
    /\ \E r \in store.invoices : ~r.is_cancelled
    /\ Len(calls) = 2 /\ \A k \in DOMAIN calls : calls[k].outcome = "commit"
    /\ \E i \in Idx(calls[1].batch), j \in Idx(calls[2].batch) :
          /\ calls[1].batch[i].InvoiceNo = calls[2].batch[j].InvoiceNo
          /\ Head(calls[1].batch[i].InvoiceNo) = "C"

\* C11 - ingestion is append-only: every Customer, Product and Invoice row
\* that was committed when the latest group started is in the store
\* unchanged and is the only row of its key, and every InvoiceItem row of
\* then is still there, whatever the group's records say about that key
\* and whether the group committed or not.
C11_AppendOnly ==
    calls /= <<>> =>
        LET pre == LastCall.pre
        IN  /\ pre.customers \subseteq store.customers
            /\ pre.products \subseteq store.products
            /\ pre.invoices \subseteq store.invoices
            /\ pre.invoice_items \subseteq store.invoice_items
            /\ \A r \in pre.customers : \A x \in store.customers :
                  x.customer_id = r.customer_id => x = r
            /\ \A r \in pre.products : \A x \in store.products :
                  x.stock_code = r.stock_code => x = r
            /\ \A r \in pre.invoices : \A x \in store.invoices :
                  x.invoice_id = r.invoice_id => x = r

\* A group was committed that names a stored customer with another country
\* and a stored invoice with other values.
C11_Witness ==
    /\ calls /= <<>> /\ LastCall.outcome = "commit"
    /\ \E i \in Idx(LastCall.batch) :
          /\ \E r \in LastCall.pre.customers :
                /\ r.customer_id = LastCall.batch[i].CustomerID
                /\ r.country /= LastCall.batch[i].Country
          /\ \E r \in LastCall.pre.invoices :
                /\ r.invoice_id = LastCall.batch[i].InvoiceNo
                /\ r.country /= LastCall.batch[i].Country

\* C12 - in a committed group every record with an invoice id has its
\* Invoice row in the store, also when its stock code is empty; no Product
\* row has an empty stock code; and the InvoiceItem rows the group added are
\* one for each record that has both an invoice id and a stock code, and
\* none for the others.
C12_EmptyStockCode ==
    (calls /= <<>> /\ LastCall.outcome = "commit")
    => LET b == LastCall.batch
           added == store.invoice_items \ LastCall.pre.invoice_items
       IN  /\ \A i \in Idx(b) : TruthySeq(b[i].InvoiceNo) => HasInvoice(store, b[i].InvoiceNo)
           /\ \A r \in store.products : Truthy(r.stock_code)
           /\ Cardinality(added) = Cardinality({i \in Idx(b) : HasItem(b[i])})
           /\ \A it \in added : \E i \in Idx(b) :
                 /\ HasItem(b[i])
                 /\ it.invoice_id = b[i].InvoiceNo /\ it.stock_code = b[i].StockCode

\* A committed group with a record that has an invoice id and no stock code
\* beside a record that has both.
C12_Witness ==
    /\ calls /= <<>> /\ LastCall.outcome = "commit"
    /\ \E i, j \in Idx(LastCall.batch) :
          /\ TruthySeq(LastCall.batch[i].InvoiceNo) /\ ~Truthy(LastCall.batch[i].StockCode)
          /\ HasItem(LastCall.batch[j])

\* The records of the groups whose COMMIT processBatch has seen succeed.
RECURSIVE CommittedRecords(_)
CommittedRecords(cs) ==
    IF cs = <<>> THEN 0
    ELSE CommittedRecords(SubSeq(cs, 1, Len(cs) - 1))
         + (IF cs[Len(cs)].outcome = "commit" THEN Len(cs[Len(cs)].batch) ELSE 0)

WellFormed(r) ==
    /\ Truthy(r.CustomerID) /\ Truthy(r.StockCode) /\ Truthy(r.Description)
    /\ TruthySeq(r.InvoiceNo) /\ IsInt(r.Quantity)

\* C17 - dependency-respecting write order inside a group. A statement of
\* a live connection fails only on a record that is not well formed; rows
\* are written only inside the transaction BEGIN opened, and the store
\* changes only by the COMMIT that follows the last record; the records are
\* processed in group order, each through the customer, product, invoice
\* and item blocks in this order; an Invoice row is written when its
\* customer is there, an InvoiceItem row when its invoice and product are.
C17_WriteOrder ==
    /\ [](\A k \in DOMAIN calls :
            (calls[k].pc = "catch" /\ connected /\ session.aborted)
              => ~WellFormed(calls[k].batch[calls[k].i]))
    /\ [][/\ (session'.ins /= session.ins /\ session'.ins /= EmptyDb)
              => session.inTx /\ session'.inTx
          /\ store' /= store
              => /\ session.inTx /\ ~session'.inTx
                 /\ store' = Merge(store, session.ins)
                 /\ \E k \in DOMAIN calls : calls[k].pc = "commit"
          /\ \A k \in DOMAIN calls :
                (k \in DOMAIN calls' /\ calls'[k] /= calls[k] /\ calls[k].pc = "row")
                  => \/ calls'[k].pc = "catch" /\ calls'[k].i = calls[k].i
                     \/ /\ calls'[k].pc = "row" /\ calls'[k].i = calls[k].i
                        /\ calls'[k].s = calls[k].s + 1
                     \/ /\ calls'[k].pc = "row" /\ calls'[k].i = calls[k].i + 1
                        /\ calls[k].s = 4 /\ calls'[k].s = 1
                     \/ /\ calls'[k].pc = "commit" /\ calls[k].s = 4
                        /\ calls[k].i = Len(calls[k].batch)
          /\ \A r \in session'.ins.invoices \ session.ins.invoices :
                r.customer_id = Null \/ HasCustomer(View(store, session), r.customer_id)
          /\ \A r \in session'.ins.invoice_items \ session.ins.invoice_items :
                /\ HasInvoice(View(store, session), r.invoice_id)
                /\ HasProduct(View(store, session), r.stock_code)]_vars

\* A committed group with a well-formed record that brought a customer, a
\* product and an invoice the store and the records before it did not have.
C17_Witness ==
    /\ calls /= <<>> /\ LastCall.outcome = "commit"
    /\ \E i \in Idx(LastCall.batch) :
          /\ WellFormed(LastCall.batch[i])
          /\ ~HasCustomer(LastCall.pre, LastCall.batch[i].CustomerID)
          /\ ~HasProduct(LastCall.pre, LastCall.batch[i].StockCode)
          /\ ~HasInvoice(LastCall.pre, LastCall.batch[i].InvoiceNo)
          /\ FirstCustomer(LastCall.batch, i) /\ FirstProduct(LastCall.batch, i)
          /\ FirstInvoice(LastCall.batch, i)

\* C18 - no record is lost, duplicated or reordered by batching. The
\* groups handed to processBatch, in hand-over order, followed by the
\* records waiting in the buffer, are the records the stream has emitted;
\* while a handed-over group has not been cleared from the buffer the
\* buffer holds that group and nothing else; at completion the groups are
\* the source.
C18_NoRecordLost ==
    /\ IF calls /= <<>> /\ LastCall.pc /= "done"
       THEN /\ Handed(calls) = SubSeq(source, 1, pos)
            /\ currentBatch = LastCall.batch
       ELSE IF calls /= <<>> /\ LastCall.caller = "end"
       THEN Handed(calls) = source
       ELSE Handed(calls) \o currentBatch = SubSeq(source, 1, pos)
    /\ \A k \in DOMAIN calls : calls[k].batch /= <<>>
    /\ completionLogged => Handed(calls) = source

\* The buffer was cleared after a group that failed, the stream went on
\* and the run completed with the rest of the source in a second group.
C18_Witness ==
    /\ completionLogged
    /\ Len(calls) = 2 /\ Len(source) > batchSize
    /\ calls[1].outcome = "rollback" /\ calls[2].caller = "end"

\* C19 - termination. As long as the connection is made and not lost, a
\* pause of the stream is followed by its resumption, whether the group
\* committed or failed, and the run reaches the completion message and the
\* closing of the connection.
C19_Termination ==
    /\ (proc = "running" /\ ~flowing /\ calls /= <<>> /\ LastCall.caller = "data"
          /\ LastCall.pc /= "done")
          ~> (flowing \/ ConnectionLost)
    /\ (proc = "running" /\ connected)
          ~> ((completionLogged /\ clientEnded) \/ ConnectionLost)

\* The run completed and closed its connection after a full group that
\* was rolled back.
C19_Witness ==
    /\ completionLogged /\ clientEnded
    /\ \E k \in DOMAIN calls :
          calls[k].caller = "data" /\ calls[k].outcome = "rollback" /\ calls[k].pc = "done"

\* One run in which the file may also fail to open.
NextFatal ==
    \/ NextLive
    \/ SourceOpenFails

\* As LiveSpec, and the runtime ends the process on a rejection nothing
\* handles (the default of Node.js from version 15 on).
FatalSpec ==
    /\ InitLive /\ [][NextFatal]_vars
    /\ WF_vars(PipelineStep)
    /\ WF_vars(\E k \in DOMAIN calls : UnhandledRejection(k))

\* The connection is gone while a call of processBatch has statements to
\* issue or a rejection to deliver.
LostInGroup ==
    /\ ConnectionLost
    /\ \E k \in DOMAIN calls : InFlight(calls[k]) \/ calls[k].pc = "rejected"

\* The process has ended with a non-zero status.
Failed == proc \in {"exit1", "crashed"}

\* C14 - fatal conditions end the run with failure. A connect that fails
\* ends the process with status 1; a file that cannot be opened ends it by
\* the unhandled 'error' event; a connection lost while a group is being
\* processed makes the statements and the ROLLBACK fail and ends the
\* process by the unhandled rejection; in each case the completion message
\* is not printed, before or after.
C14_FatalConditions ==
    /\ [][(proc = "start" /\ proc' /= "start" /\ ~connected') => proc' = "exit1"]_vars
    /\ []((Failed \/ LostInGroup) => ~completionLogged)
    /\ [][(Failed \/ LostInGroup) => (Failed' \/ LostInGroup')]_vars
    /\ LostInGroup ~> Failed

\* The connection was lost while the last group was being processed: its
\* ROLLBACK failed and the process ended without the completion message.
C14_Witness ==
    /\ proc = "crashed" /\ ~completionLogged
    /\ calls /= <<>> /\ LastCall.outcome = "reject" /\ LastCall.caller = "end"
    /\ Handed(calls) = source

\* ------------------------------------------------------ the products API
\* The API server works on the same database through a pool: each of its
\* statements is a transaction of its own and sees the committed rows.
MaxApi == 3

\* The records ingested while the API is in use: one that brings product
\* P1 and one that relies on P1 being stored.
ApiRows == {r \in Rows : r.StockCode = "P1" /\ r.Country = "UK"}
ApiSources == {src \in Sources : /\ Len(src) \in 1..batchSize
                                  /\ \A i \in DOMAIN src : src[i] \in ApiRows}

\* Request parameters: a stock code or none, a description or none, a
\* popularity score or none (hasScore = FALSE: the body has no such field).
ApiKeys == {"P1"}
ApiCodes == ApiKeys \cup {Undefined}
ApiDescriptions == {"NEW", Undefined}
ApiScores == {5}

ProductOf(db, code) == CHOOSE r \in db.products : r.stock_code = code
Respond(op, code, desc, status, rows) ==
    [op |-> op, stock_code |-> code, description |-> desc, status |-> status,
     rows |-> rows]

\* (the INSERT on a table without its primary key)
PostInsertNoKey(db, code, desc) ==
    [err |-> "", rows |-> {[stock_code |-> code, description |-> desc, popularity_score |-> 0]},
     db |-> [db EXCEPT !.products = @ \cup
               {[stock_code |-> code, description |-> desc, popularity_score |-> 0]}]]
\* src/app.js:180-183 INSERT INTO products (stock_code, description)
\* VALUES ($1, $2) RETURNING *; stock_code is the primary key.
PostInsert(db, code, desc) ==
    IF HasProduct(db, code) THEN [err |-> "23505", rows |-> {}, db |-> db]
    ELSE [err |-> "",
          rows |-> {[stock_code |-> code, description |-> desc, popularity_score |-> 0]},
          db |-> [db EXCEPT !.products = @ \cup
                    {[stock_code |-> code, description |-> desc, popularity_score |-> 0]}]]

\* src/app.js:169-199 POST /api/products. An INSERT of a key that the open
\* transaction of the ingestion has inserted waits for that transaction.
ApiPost(code, desc) ==
    /\ apiCount < MaxApi
    /\ apiCount' = apiCount + 1
    /\ IF ~Truthy(code) \/ ~Truthy(desc)
       THEN /\ response' = Respond("POST", code, desc, 400, {})
            /\ UNCHANGED store
       ELSE /\ ~(session.inTx /\ HasProduct(session.ins, code))
            /\ LET r == PostInsert(store, code, desc)
               IN  /\ store' = r.db
                   /\ response' = IF r.err = "" THEN Respond("POST", code, desc, 201, r.rows)
                                  ELSE IF r.err = "23505" THEN Respond("POST", code, desc, 409, {})
                                  ELSE Respond("POST", code, desc, 500, {})
    /\ UNCHANGED <<streamErrored, puts, firstRun, source, run, proc, pos, flowing, endEmitted, currentBatch,
                   processedRows, connected, clientEnded, completionLogged, itemSeq,
                   session, calls>>

\* src/app.js:312-336 PUT /api/products/:stock_code up to its UPDATE: the
\* SELECT, the 404 and the 400.
ApiPutSelect(code, desc, hasScore, score) ==
    /\ apiCount < MaxApi
    /\ apiCount' = apiCount + 1
    /\ IF ~HasProduct(store, code)
       THEN /\ response' = Respond("PUT", code, desc, 404, {})
            /\ UNCHANGED puts
       ELSE IF ~Truthy(desc) /\ ~hasScore
       THEN /\ response' = Respond("PUT", code, desc, 400, {})
            /\ UNCHANGED puts
       ELSE /\ puts' = Append(puts, [stock_code |-> code, description |-> desc,
                                     hasScore |-> hasScore, popularity_score |-> score,
                                     currentProduct |-> ProductOf(store, code)])
            /\ UNCHANGED response
    /\ UNCHANGED <<streamErrored, store, firstRun, source, run, proc, pos, flowing, endEmitted, currentBatch,
                   processedRows, connected, clientEnded, completionLogged, itemSeq,
                   session, calls>>

\* src/app.js:346 description || currentProduct.description
PutDescription(p) ==
    IF Truthy(p.description) THEN p.description ELSE p.currentProduct.description
\* src/app.js:347 popularity_score !== undefined ? popularity_score
\*                   : currentProduct.popularity_score
PutScore(p) ==
    IF p.hasScore THEN p.popularity_score ELSE p.currentProduct.popularity_score

\* src/app.js:339-352 the UPDATE of a PUT and its answer. The statement
\* sets both columns; a row that is gone by now updates nothing and
\* rows[0] is undefined.
ApiPutUpdate(k) ==
    /\ k \in DOMAIN puts
    /\ LET p == puts[k]
           new == [stock_code |-> p.stock_code, description |-> PutDescription(p),
                   popularity_score |-> PutScore(p)]
       IN  IF HasProduct(store, p.stock_code)
           THEN /\ store' = [store EXCEPT !.products =
                               {r \in @ : r.stock_code /= p.stock_code} \cup {new}]
                /\ response' = Respond("PUT", p.stock_code, p.description, 200, {new})
           ELSE /\ UNCHANGED store
                /\ response' = Respond("PUT", p.stock_code, p.description, 200, {})
    /\ puts' = SubSeq(puts, 1, k - 1) \o SubSeq(puts, k + 1, Len(puts))
    /\ UNCHANGED <<streamErrored, apiCount, firstRun, source, run, proc, pos, flowing, endEmitted,
                   currentBatch, processedRows, connected, clientEnded, completionLogged,
                   itemSeq, session, calls>>

\* (the foreign key declared ON DELETE CASCADE: the line items go with
\* the product)
DeleteProductCascade(db, code) ==
    IF ~HasProduct(db, code) THEN [err |-> "", rowCount |-> 0, db |-> db]
    ELSE [err |-> "", rowCount |-> 1,
          db |-> [db EXCEPT !.products = {r \in @ : r.stock_code /= code},
                            !.invoice_items = {it \in @ : it.stock_code /= code}]]
\* (the DELETE on a table no foreign key refers to)
DeleteProductNoFk(db, code) ==
    IF ~HasProduct(db, code) THEN [err |-> "", rowCount |-> 0, db |-> db]
    ELSE [err |-> "", rowCount |-> 1,
          db |-> [db EXCEPT !.products = {r \in @ : r.stock_code /= code}]]
\* src/app.js:381-384 DELETE FROM products WHERE stock_code = $1;
\* invoice_items.stock_code REFERENCES products.
DeleteProduct(db, code) ==
    IF ~HasProduct(db, code) THEN [err |-> "", rowCount |-> 0, db |-> db]
    ELSE IF \E it \in db.invoice_items : it.stock_code = code
    THEN [err |-> "23503", rowCount |-> 0, db |-> db]
    ELSE [err |-> "", rowCount |-> 1,
          db |-> [db EXCEPT !.products = {r \in @ : r.stock_code /= code}]]

\* src/app.js:379-407 DELETE /api/products/:stock_code. The DELETE of a
\* row that a line item of the open ingestion transaction refers to waits
\* for that transaction.
ApiDelete(code) ==
    /\ apiCount < MaxApi
    /\ apiCount' = apiCount + 1
    /\ ~(/\ session.inTx /\ HasProduct(store, code)
         /\ \E it \in session.ins.invoice_items : it.stock_code = code)
    /\ LET r == DeleteProduct(store, code)
       IN  /\ store' = r.db
           /\ response' = IF r.err = "23503" THEN Respond("DELETE", code, Undefined, 409, {})
                          ELSE IF r.err /= "" THEN Respond("DELETE", code, Undefined, 500, {})
                          ELSE IF r.rowCount = 0 THEN Respond("DELETE", code, Undefined, 404, {})
                          ELSE Respond("DELETE", code, Undefined, 204, {})
    /\ UNCHANGED <<streamErrored, puts, firstRun, source, run, proc, pos, flowing, endEmitted, currentBatch,
                   processedRows, connected, clientEnded, completionLogged, itemSeq,
                   session, calls>>

ApiInit ==
    /\ Init
    /\ source \in ApiSources

ApiNext ==
    \/ PipelineStep
    \/ \E code \in ApiCodes, desc \in ApiDescriptions : ApiPost(code, desc)
    \/ \E code \in ApiKeys, desc \in ApiDescriptions, hasScore \in BOOLEAN,
          score \in ApiScores : ApiPutSelect(code, desc, hasScore, score)
    \/ \E k \in DOMAIN puts : ApiPutUpdate(k)
    \/ \E code \in ApiKeys : ApiDelete(code)

\* The ingestion script and the API server at work on the same database.
ApiSpec == ApiInit /\ [][ApiNext]_vars

RefIntegrity(db) ==
    /\ \A it \in db.invoice_items :
          HasInvoice(db, it.invoice_id) /\ HasProduct(db, it.stock_code)
    /\ \A inv \in db.invoices :
          inv.customer_id /= Null => HasCustomer(db, inv.customer_id)

\* C15 - referential integrity: in every committed state of the store,
\* whatever the ingestion and the product requests of the API have done,
\* every InvoiceItem row refers to an Invoice row and a Product row that
\* are there and every Invoice row with a customer id to a Customer row
\* that is there.
C15_ReferentialIntegrity == RefIntegrity(store)

\* The API has refused to delete a product that an ingested line item
\* refers to.
C15_Witness ==
    /\ response.op = "DELETE" /\ response.status = 409
    /\ \E it \in store.invoice_items : it.stock_code = response.stock_code

\* The step is the answer to a POST.
PostStep == apiCount' = apiCount + 1 /\ puts' = puts /\ response'.op = "POST"

\* C16 - product keys are never duplicated. The store has at most one
\* Product row per stock_code; a POST without stock_code or description is
\* answered 400 and one for a stock_code that is there 409, both leaving
\* the store as it is; a 201 adds the one row of a stock_code that was not
\* there; no step of the ingestion changes or removes a Product row.
C16_ProductKeyUnique ==
    /\ [](\A r1, r2 \in store.products : r1.stock_code = r2.stock_code => r1 = r2)
    /\ [][PostStep =>
            LET code == response'.stock_code
                desc == response'.description
            IN  /\ response'.status \in {400, 409, 201}
                /\ response'.status = 400 <=> (~Truthy(code) \/ ~Truthy(desc))
                /\ response'.status = 409 <=>
                      (Truthy(code) /\ Truthy(desc) /\ HasProduct(store, code))
                /\ response'.status \in {400, 409} => store' = store
                /\ response'.status = 201 =>
                      /\ store'.products = store.products \cup
                            {[stock_code |-> code, description |-> desc,
                              popularity_score |-> 0]}
                      /\ response'.rows \subseteq store'.products]_vars
    /\ [][api' = api => store.products \subseteq store'.products]_vars

\* A POST for the stock code of a product that the ingestion had stored
\* was answered 409.
C16_Witness ==
    /\ response.op = "POST" /\ response.status = 409
    /\ \E r \in store.products :
          r.stock_code = response.stock_code /\ r.description = "HEART"
    /\ \E k \in DOMAIN calls : calls[k].outcome = "commit"

\* C20 - PUT is a partial update under every interleaving: the UPDATE of a
\* request without popularity_score leaves the score the store holds at
\* that moment, and the UPDATE of a request without description leaves the
\* description the store holds at that moment.
C20_PartialUpdate ==
    [][\A k \in DOMAIN puts :
          (/\ puts' = SubSeq(puts, 1, k - 1) \o SubSeq(puts, k + 1, Len(puts))
           /\ HasProduct(store, puts[k].stock_code))
          => /\ HasProduct(store', puts[k].stock_code)
             /\ ~puts[k].hasScore =>
                   ProductOf(store', puts[k].stock_code).popularity_score
                     = ProductOf(store, puts[k].stock_code).popularity_score
             /\ ~Truthy(puts[k].description) =>
                   ProductOf(store', puts[k].stock_code).description
                     = ProductOf(store, puts[k].stock_code).description]_vars

\* The step is the UPDATE of the PUT request at place k and its answer.
PutUpdateStep(k) ==
    /\ k \in DOMAIN puts
    /\ apiCount' = apiCount
    /\ puts' = SubSeq(puts, 1, k - 1) \o SubSeq(puts, k + 1, Len(puts))
\* The step is the answer of a PUT that did not get to its UPDATE.
PutRefusedStep == apiCount' = apiCount + 1 /\ puts' = puts /\ response'.op = "PUT"

\* C21 - PUT under interleaved DELETEs: when no Product row of the stock
\* code is there at the moment the update is applied the answer is 404 and
\* nothing is written; a 200 carries the updated row, which is then the row
\* in the store; a request with neither field on a product that is there
\* is answered 400 and writes nothing.
C21_PutNotFound ==
    [][/\ \A k \in DOMAIN puts :
            PutUpdateStep(k) =>
              IF HasProduct(store, puts[k].stock_code)
              THEN /\ response'.status = 200
                   /\ response'.rows /= {}
                   /\ response'.rows \subseteq store'.products
              ELSE response'.status = 404 /\ store' = store
       /\ PutRefusedStep =>
            /\ store' = store
            /\ response'.status \in {404, 400}
            /\ response'.status = 404 <=> ~HasProduct(store, response'.stock_code)]_vars

\* The step is the answer to a DELETE.
DeleteStep == apiCount' = apiCount + 1 /\ puts' = puts /\ response'.op = "DELETE"

\* C22 - DELETE answers 204, 404 or 409: 204 exactly when the product is
\* there and no InvoiceItem row refers to it, and then that one Product row
\* is removed and nothing else; 404 exactly when no such product is there
\* and 409 exactly when the product is there and referred to, both leaving
\* every table as it is.
C22_DeleteOutcomes ==
    [][DeleteStep =>
         LET code == response'.stock_code
             referenced == \E it \in store.invoice_items : it.stock_code = code
         IN  /\ response'.status \in {204, 404, 409}
             /\ response'.status = 204 <=> (HasProduct(store, code) /\ ~referenced)
             /\ response'.status = 404 <=> ~HasProduct(store, code)
             /\ response'.status = 409 <=> (HasProduct(store, code) /\ referenced)
             /\ response'.status \in {404, 409} => store' = store
             /\ response'.status = 204 =>
                   /\ store'.products = store.products \ {ProductOf(store, code)}
                   /\ store'.customers = store.customers
                   /\ store'.invoices = store.invoices
                   /\ store'.invoice_items = store.invoice_items]_vars

\* A product the ingestion had stored was deleted while no line item
\* referred to it: the group that brought it holds no committed item.
C22_Witness ==
    /\ response.op = "DELETE" /\ response.status = 204
    /\ ~HasProduct(store, response.stock_code)
    /\ store.invoice_items = {}
    /\ \E k \in DOMAIN calls : calls[k].pc = "done"

\* One run in which the csv stream may fail.
NextReadError ==
    \/ PipelineStep
    \/ StreamError

ReadErrorSpec == InitLive /\ [][NextReadError]_vars

\* C23 - an error of the record stream is only logged: the step changes
\* nothing else and the process goes on. From then on the completion
\* message is not printed, no further group is handed to processBatch, so
\* the records left in the buffer are never written, the store changes only
\* by the commit of the group that was in flight, and every row committed
\* stays in the store.
C23_ReadErrorPolicy ==
    /\ [](streamErrored => ~completionLogged /\ ~clientEnded /\ proc = "running")
    /\ [][(~streamErrored /\ streamErrored')
            => UNCHANGED <<proc, pos, flowing, endEmitted, currentBatch, processedRows,
                           connected, clientEnded, completionLogged, store, itemSeq,
                           session, calls>>]_vars
    /\ [][streamErrored =>
            /\ Len(calls') = Len(calls)
            /\ \A k \in DOMAIN calls : calls'[k].batch = calls[k].batch
            /\ pos' = pos
            /\ store.customers \subseteq store'.customers
            /\ store.products \subseteq store'.products
            /\ store.invoices \subseteq store'.invoices
            /\ store.invoice_items \subseteq store'.invoice_items
            /\ store' /= store =>
                  /\ LastCall.pc = "commit"
                  /\ store' = GroupEffect(LastCall.pre, LastCall.preSeq, LastCall.batch)]_vars

\* The stream failed after a group had been committed and with a record
\* in the buffer; the pipeline has come to rest with that record unwritten.
C23_Witness ==
    /\ streamErrored
    /\ Len(calls) = 1 /\ calls[1].outcome = "commit" /\ calls[1].pc = "done"
    /\ Len(currentBatch) = 1 /\ pos = batchSize + 1
    /\ store = GroupEffect(calls[1].pre, calls[1].preSeq, calls[1].batch)
    /\ store /= EmptyDb

====
